---- MODULE Spec2Model ----
(***************************************************************************)
(* hudorBot: the moderation engine of bot.go (BotService) as a state       *)
(* machine.  One supergroup chat is modelled; its redis keys are the       *)
(* variables settings (groupKey), whitelist (whiteListKey), warns          *)
(* (membersKey per human) and adminGroups (adminKey per creator).  Every   *)
(* event is handled by its own goroutine (an element of the bag tasks);    *)
(* goroutines carry no identity, so two that hold the same locals are two  *)
(* copies of one element.  Every redis call of a handler is one step, so   *)
(* that the steps of different goroutines interleave.                      *)
(* Calls to the Telegram API do not touch redis                            *)
(* and belong to the step of the redis call they follow (or, for a         *)
(* removal, to a step of their own).  The variable calls holds, in order,  *)
(* the redis and Telegram calls of the last step, with their answers.      *)
(***************************************************************************)
EXTENDS Integers, Sequences, FiniteSets, Bags, TLC

VARIABLES settings, whitelist, warns, adminGroups, tasks, alive, calls,
          incrs, reads

vars == <<settings, whitelist, warns, adminGroups, tasks, alive, calls,
          incrs, reads>>

\* history of each warn counter since its key was last deleted: the number
\* of increments and the values they returned
history == <<incrs, reads>>

store == <<settings, whitelist, warns, adminGroups>>

----------------------------------------------------------------------------
(* Bounds *)

\* goroutines that run at the same time
MaxTasks == 2
\* accounts listed in one NewChatMembers update
MaxUsers == 2
\* largest value a warn counter is driven to
MaxWarn == 4

----------------------------------------------------------------------------
(* Accounts, the chat and the gateway's answers *)

Self == 5
Humans == {1, 2}
Bots == {3, 4}
Accounts == Humans \cup Bots \cup {Self}
Chat == "chat"
Titles == {"title"}
Descriptions == {"about"}
\* zero value of groupSettings.Creator
NoCreator == 0

BadRequest == 400

\* tgbotapi.APIResponse and the error returned with it by KickChatMember
KickResponses ==
    { [Ok |-> TRUE,  ErrorCode |-> 0,   err |-> FALSE],
      [Ok |-> FALSE, ErrorCode |-> 400, err |-> TRUE],
      [Ok |-> FALSE, ErrorCode |-> 403, err |-> TRUE] }

\* GetChatAdministrators: an error, or the administrators, of which findCreator
\* returns the creator (NoCreator: none of them has the creator status)
AdminResponses(creators) ==
    { [err |-> TRUE, creator |-> NoCreator] } \cup
    { [err |-> FALSE, creator |-> c] : c \in {NoCreator} \cup creators }

----------------------------------------------------------------------------
(* groupSettings *)

\* a nil *groupSettings
NoSettings ==
    [exists |-> FALSE, isActive |-> FALSE, showWarn |-> FALSE, limit |-> 0,
     creator |-> NoCreator, title |-> "", description |-> ""]

\* an absent groupKey hash; the hash holds the creator as a decimal string
NoHash == [NoSettings EXCEPT !.creator = ""]

DefaultLimit == 3

DefaultSettings(creator, title, description) ==
    [exists |-> TRUE, isActive |-> FALSE, showWarn |-> TRUE,
     limit |-> DefaultLimit, creator |-> creator, title |-> title,
     description |-> description]

\* strconv on the account IDs of the model
Itoa(n) ==
    CASE n = 0 -> "0" [] n = 1 -> "1" [] n = 2 -> "2" [] n = 3 -> "3"
      [] n = 4 -> "4" [] n = 5 -> "5"

ParseInt(str) ==
    CASE str = "0" -> [err |-> FALSE, value |-> 0]
      [] str = "1" -> [err |-> FALSE, value |-> 1]
      [] str = "2" -> [err |-> FALSE, value |-> 2]
      [] str = "3" -> [err |-> FALSE, value |-> 3]
      [] str = "4" -> [err |-> FALSE, value |-> 4]
      [] str = "5" -> [err |-> FALSE, value |-> 5]
      [] OTHER -> [err |-> TRUE, value |-> 0]

\* groupSettings.Map(): the fields of the hash written by HMSet
SettingsMap(gs) == [gs EXCEPT !.creator = Itoa(gs.creator)]

\* the stored hash read back as *groupSettings (nil when the key is absent)
findGroupByID(hash) ==
    IF hash.exists
    THEN [hash EXCEPT !.creator = ParseInt(hash.creator).value]
    ELSE NoSettings

isGroupActive(s) == s.exists /\ s.isActive

changeGroupActiveStatus(s, status) ==
    IF s.exists THEN [s EXCEPT !.isActive = status] ELSE s

incrementMemberWarns(w, h) == [w EXCEPT ![h] = w[h] + 1]

kickUser(r) ==
    IF r.ErrorCode = BadRequest
    THEN [ok |-> FALSE, err |-> FALSE]
    ELSE [ok |-> r.Ok, err |-> r.err]

----------------------------------------------------------------------------
(* Messages *)

warnUser(current, limit) == [kind |-> "warn", current |-> current, limit |-> limit]
superGroupIntroduction == [kind |-> "introduction"]
botAddedToWhitelist(user) == [kind |-> "whitelisted", user |-> user]
botCannotOperateWithoutCreator == [kind |-> "noCreator"]

\* calls to the Telegram API
Send(msg) == [op |-> "Send", msg |-> msg]
KickChatMember(user, r) == [op |-> "KickChatMember", user |-> user, response |-> r]
DeleteMessage == [op |-> "DeleteMessage"]
LeaveChat == [op |-> "LeaveChat"]
GetChatAdministrators(r) == [op |-> "GetChatAdministrators", response |-> r]

\* calls to redis
HGetAll(gs) == [op |-> "HGetAll", found |-> gs.exists]
HGet(found) == [op |-> "HGet", found |-> found]
HSet(status) == [op |-> "HSet", isActive |-> status]
SAdd(user, added) == [op |-> "SAdd", user |-> user, added |-> added]
SIsMember(user, isMember) == [op |-> "SIsMember", user |-> user, isMember |-> isMember]
SRem(user) == [op |-> "SRem", user |-> user]
Incr(human, value) == [op |-> "Incr", human |-> human, value |-> value]
Del(human) == [op |-> "Del", human |-> human]
Exec(batch) == [op |-> "Exec", batch |-> batch]

----------------------------------------------------------------------------
(* Goroutines *)

\* the locals of a goroutine; pc is the place it has reached
NewTask ==
    [pc |-> "new", from |-> 0, users |-> <<>>, i |-> 0, left |-> 0,
     gs |-> NoSettings, usrWarns |-> 0, creatorStr |-> "",
     title |-> "", description |-> ""]

Returned == [NewTask EXCEPT !.pc = "return"]

\* the lists of joined accounts: no account twice, at most MaxUsers of them
RECURSIVE SeqsOf(_, _)
SeqsOf(S, n) ==
    IF n = 0 THEN {<<>>}
    ELSE LET shorter == SeqsOf(S, n - 1)
         IN  shorter \cup
             { Append(q, x) : q \in { p \in shorter : Len(p) = n - 1 },
                              x \in S }

NoRepeat(q) == \A a, b \in 1..Len(q) : a # b => q[a] # q[b]

UserLists(joined) ==
    { q \in SeqsOf(joined, MaxUsers) : Len(q) > 0 /\ NoRepeat(q) }

\* The updates and gateway answers a specification draws from: the senders of
\* NewChatMembers updates, the accounts that join, leave and post, and the
\* accounts GetChatAdministrators may report as creator.
Inputs ==
    [froms |-> Humans, joined |-> {3, Self}, left |-> {3, Self},
     senders |-> {3}, creators |-> {1}]

CorruptInputs ==
    [froms |-> {1}, joined |-> {3, Self}, left |-> {3, Self},
     senders |-> {3}, creators |-> {1}]

\* updates that list two bots, and chats whose creator changes between
\* two initializations
WideInputs ==
    [froms |-> {2}, joined |-> {3, 4, Self}, left |-> {Self},
     senders |-> {3}, creators |-> Humans]

\* updates of a chat whose creator changes its settings
SettingsInputs ==
    [froms |-> Humans, joined |-> {3, Self}, left |-> {Self},
     senders |-> {3}, creators |-> {1}]

\* the warn limits the creator chooses between
Limits == {1, DefaultLimit}

\* the loop of processNewUsers moves to the next account that is not the
\* moderator, or ends
NextUser(tk) ==
    LET later == { j \in (tk.i + 1)..Len(tk.users) : tk.users[j] # Self }
    IN  IF later = {} THEN Returned
        ELSE [tk EXCEPT !.pc = "nu_loop",
                        !.i = CHOOSE j \in later : \A k \in later : j <= k,
                        !.usrWarns = 0]

Running == BagToSet(tasks)

Go(tk) == tasks' = tasks (+) SetToBag({tk})

\* the goroutine with locals tk takes a step that leaves it with locals next
Step(tk, next) ==
    tasks' = IF next.pc = "return"
             THEN tasks (-) SetToBag({tk})
             ELSE (tasks (-) SetToBag({tk})) (+) SetToBag({next})

\* log.Fatal in the goroutine with locals tk: os.Exit ends the process and
\* with it every goroutine; tk stays behind as the record of the exit
Fatal(tk) ==
    /\ tasks' = SetToBag({[tk EXCEPT !.pc = "fatal"]})
    /\ alive' = FALSE

----------------------------------------------------------------------------
Init ==
    /\ settings = NoHash
    /\ whitelist = {}
    /\ warns = [h \in Humans |-> 0]
    /\ adminGroups = [h \in Humans |-> {}]
    /\ tasks = EmptyBag
    /\ alive = TRUE
    /\ calls = <<>>
    /\ incrs = [h \in Humans |-> 0]
    /\ reads = [h \in Humans |-> {}]

----------------------------------------------------------------------------
(* Start: the dispatcher *)

StartNewUsers(in) ==
    /\ alive /\ BagCardinality(tasks) < MaxTasks
    /\ \E from \in in.froms, users \in UserLists(in.joined),
          title \in Titles, description \in Descriptions :
          Go([NewTask EXCEPT !.pc = "nu_find", !.from = from,
                             !.users = users, !.title = title,
                             !.description = description])
    /\ calls' = <<>>
    /\ UNCHANGED <<store, alive, history>>

StartLeftUser(in) ==
    /\ alive /\ BagCardinality(tasks) < MaxTasks
    /\ \E left \in in.left :
          Go([NewTask EXCEPT
                 !.pc = IF left = Self THEN "lu_hget" ELSE "lu_srem",
                 !.left = left])
    /\ calls' = <<>>
    /\ UNCHANGED <<store, alive, history>>

StartBotMessage(in) ==
    /\ alive /\ BagCardinality(tasks) < MaxTasks
    /\ \E from \in in.senders :
          Go([NewTask EXCEPT !.pc = "bm_active", !.from = from])
    /\ calls' = <<>>
    /\ UNCHANGED <<store, alive, history>>

\* a writer other than the engine leaves a creator field that is no number
CorruptCreator ==
    /\ alive
    /\ settings.exists /\ ~ParseInt(settings.creator).err
    /\ settings' = [settings EXCEPT !.creator = "?"]
    /\ calls' = <<>>
    /\ UNCHANGED <<whitelist, warns, adminGroups, tasks, alive, history>>

\* commandHandler.Handle: the creator's activation command
HandleActivate ==
    /\ alive
    /\ settings.exists /\ ~settings.isActive
    /\ settings' = [settings EXCEPT !.isActive = TRUE]
    /\ calls' = <<>>
    /\ UNCHANGED <<whitelist, warns, adminGroups, tasks, alive, history>>

\* commandHandler.Handle: the creator changes the warn limit or the display
\* of warnings through the private chat
HandleSettings ==
    /\ alive
    /\ settings.exists
    /\ \/ \E limit \in Limits \ {settings.limit} :
             settings' = [settings EXCEPT !.limit = limit]
       \/ settings' = [settings EXCEPT !.showWarn = ~settings.showWarn]
    /\ calls' = <<>>
    /\ UNCHANGED <<whitelist, warns, adminGroups, tasks, alive, history>>

----------------------------------------------------------------------------
(* processNewUsers *)

processNewUsersFind ==
    \E tk \in Running :
        LET gs == findGroupByID(settings)
            tk1 == [tk EXCEPT !.gs = gs]
        IN  /\ alive /\ tk.pc = "nu_find"
            /\ Step(tk, IF \E j \in 1..Len(tk.users) : tk.users[j] = Self
                        THEN [tk1 EXCEPT !.pc = "nu_init"]
                        ELSE IF ~gs.exists THEN Returned
                        ELSE NextUser(tk1))
            /\ calls' = <<HGetAll(gs)>>
            /\ UNCHANGED <<store, alive, history>>

\* an initGroup that leaves the settings of a chat that has some
InitKeepsSettings(in) ==
    \E tk \in Running :
        /\ alive /\ tk.pc = "nu_init"
        /\ \E r \in AdminResponses(in.creators) :
              /\ ~r.err /\ r.creator # NoCreator
              /\ LET new == IF settings.exists THEN findGroupByID(settings)
                             ELSE DefaultSettings(r.creator, tk.title, tk.description)
                 IN  /\ adminGroups' =
                           [adminGroups EXCEPT ![r.creator] = @ \cup {Chat}]
                     /\ settings' = SettingsMap(new)
                     /\ Step(tk, NextUser([tk EXCEPT !.gs = new]))
                     /\ calls' = <<GetChatAdministrators(r),
                                   Send(superGroupIntroduction),
                                   Exec("init")>>
        /\ UNCHANGED <<whitelist, warns, alive, history>>

\* processNewUsers going on to the other accounts after initGroup returned nil
InitFailureContinues(in) ==
    \E tk \in Running :
        /\ alive /\ tk.pc = "nu_init"
        /\ \E r \in AdminResponses(in.creators), execFails \in BOOLEAN :
              IF r.err
              THEN /\ ~execFails
                   /\ Step(tk, NextUser(tk))
                   /\ calls' = <<GetChatAdministrators(r)>>
                   /\ UNCHANGED <<store, alive>>
              ELSE IF r.creator = NoCreator
              THEN /\ ~execFails
                   /\ Step(tk, NextUser(tk))
                   /\ calls' = <<GetChatAdministrators(r),
                                 Send(superGroupIntroduction),
                                 Send(botCannotOperateWithoutCreator),
                                 LeaveChat>>
                   /\ UNCHANGED <<store, alive>>
              ELSE IF execFails
              THEN /\ Fatal(tk)
                   /\ calls' = <<GetChatAdministrators(r),
                                 Send(superGroupIntroduction)>>
                   /\ UNCHANGED store
              ELSE LET new == DefaultSettings(r.creator, tk.title, tk.description)
                   IN  /\ adminGroups' =
                             [adminGroups EXCEPT ![r.creator] = @ \cup {Chat}]
                       /\ settings' = SettingsMap(new)
                       /\ Step(tk, NextUser([tk EXCEPT !.gs = new]))
                       /\ calls' = <<GetChatAdministrators(r),
                                     Send(superGroupIntroduction),
                                     Exec("init")>>
                       /\ UNCHANGED <<whitelist, warns, alive>>
        /\ UNCHANGED history

initGroup(in) ==
    \E tk \in Running :
        /\ alive /\ tk.pc = "nu_init"
        /\ \E r \in AdminResponses(in.creators), execFails \in BOOLEAN :
              IF r.err
              THEN /\ ~execFails
                   /\ Step(tk, Returned)
                   /\ calls' = <<GetChatAdministrators(r)>>
                   /\ UNCHANGED <<store, alive>>
              ELSE IF r.creator = NoCreator
              THEN /\ ~execFails
                   /\ Step(tk, Returned)
                   /\ calls' = <<GetChatAdministrators(r),
                                 Send(superGroupIntroduction),
                                 Send(botCannotOperateWithoutCreator),
                                 LeaveChat>>
                   /\ UNCHANGED <<store, alive>>
              ELSE IF execFails
              THEN /\ Fatal(tk)
                   /\ calls' = <<GetChatAdministrators(r),
                                 Send(superGroupIntroduction)>>
                   /\ UNCHANGED store
              ELSE LET new == DefaultSettings(r.creator, tk.title, tk.description)
                   IN  /\ adminGroups' =
                             [adminGroups EXCEPT ![r.creator] = @ \cup {Chat}]
                       /\ settings' = SettingsMap(new)
                       /\ Step(tk, NextUser([tk EXCEPT !.gs = new]))
                       /\ calls' = <<GetChatAdministrators(r),
                                     Send(superGroupIntroduction),
                                     Exec("init")>>
                       /\ UNCHANGED <<whitelist, warns, alive>>
        /\ UNCHANGED history

\* the creator's branch with the SAdd going to another key
WhitelistNotWritten ==
    \E tk \in Running :
        LET user == tk.users[tk.i]
        IN  /\ alive /\ tk.pc = "nu_loop"
            /\ tk.from = tk.gs.creator
            /\ calls' = <<SAdd(user, 1), Send(botAddedToWhitelist(user))>>
            /\ Step(tk, NextUser(tk))
            /\ UNCHANGED <<store, alive, history>>

\* the creator's branch with the notice sent whatever SAdd returns
WhitelistAlwaysNotifies ==
    \E tk \in Running :
        LET user == tk.users[tk.i]
            added == IF user \in whitelist THEN 0 ELSE 1
        IN  /\ alive /\ tk.pc = "nu_loop"
            /\ tk.from = tk.gs.creator
            /\ whitelist' = whitelist \cup {user}
            /\ calls' = <<SAdd(user, added), Send(botAddedToWhitelist(user))>>
            /\ Step(tk, NextUser(tk))
            /\ UNCHANGED <<settings, warns, adminGroups, alive, history>>

\* the creator's branch: SAdd to the whitelist, a notice when newly added
processNewUsersWhitelist ==
    \E tk \in Running :
        LET user == tk.users[tk.i]
            added == IF user \in whitelist THEN 0 ELSE 1
        IN  /\ alive /\ tk.pc = "nu_loop"
            /\ tk.from = tk.gs.creator
            /\ whitelist' = whitelist \cup {user}
            /\ calls' = IF added > 0
                        THEN <<SAdd(user, added), Send(botAddedToWhitelist(user))>>
                        ELSE <<SAdd(user, added)>>
            /\ Step(tk, NextUser(tk))
            /\ UNCHANGED <<settings, warns, adminGroups, alive, history>>

\* !groupSettings.IsActive: continue
processNewUsersInactive ==
    \E tk \in Running :
        /\ alive /\ tk.pc = "nu_loop"
        /\ tk.from # tk.gs.creator
        /\ ~tk.gs.isActive
        /\ Step(tk, NextUser(tk))
        /\ calls' = <<>>
        /\ UNCHANGED <<store, alive, history>>

\* the whitelist read with its answer ignored
IsMemberIgnored ==
    \E tk \in Running :
        LET isApproved == tk.users[tk.i] \in whitelist
        IN  /\ alive /\ tk.pc = "nu_loop"
            /\ tk.from # tk.gs.creator
            /\ tk.gs.isActive
            /\ Step(tk, [tk EXCEPT !.pc = "nu_kick"])
            /\ calls' = <<SIsMember(tk.users[tk.i], isApproved)>>
            /\ UNCHANGED <<store, alive, history>>

\* SIsMember of the whitelist
processNewUsersIsMember ==
    \E tk \in Running :
        LET isApproved == tk.users[tk.i] \in whitelist
        IN  /\ alive /\ tk.pc = "nu_loop"
            /\ tk.from # tk.gs.creator
            /\ tk.gs.isActive
            /\ Step(tk, IF isApproved THEN NextUser(tk)
                        ELSE [tk EXCEPT !.pc = "nu_kick"])
            /\ calls' = <<SIsMember(tk.users[tk.i], isApproved)>>
            /\ UNCHANGED <<store, alive, history>>

\* a denied removal that is logged and skipped like an error
KickDeniedContinues ==
    \E tk \in Running :
        /\ alive /\ tk.pc = "nu_kick"
        /\ \E r \in KickResponses :
              LET k == kickUser(r)
              IN  /\ Step(tk, IF k.err \/ ~k.ok THEN NextUser(tk)
                              ELSE [tk EXCEPT !.pc = "nu_incr"])
                  /\ calls' = <<KickChatMember(tk.users[tk.i], r)>>
        /\ UNCHANGED <<store, alive, history>>

\* the removal of the joined account counted although it ended in an error
KickErrorStillCounts ==
    \E tk \in Running :
        /\ alive /\ tk.pc = "nu_kick"
        /\ \E r \in KickResponses :
              LET k == kickUser(r)
              IN  /\ Step(tk, IF ~k.err /\ ~k.ok THEN [tk EXCEPT !.pc = "nu_deact"]
                              ELSE [tk EXCEPT !.pc = "nu_incr"])
                  /\ calls' = <<KickChatMember(tk.users[tk.i], r)>>
        /\ UNCHANGED <<store, alive, history>>

\* kickUser of the joined account
processNewUsersKick ==
    \E tk \in Running :
        /\ alive /\ tk.pc = "nu_kick"
        /\ \E r \in KickResponses :
              LET k == kickUser(r)
              IN  /\ Step(tk, IF k.err THEN NextUser(tk)
                              ELSE IF ~k.ok THEN [tk EXCEPT !.pc = "nu_deact"]
                              ELSE [tk EXCEPT !.pc = "nu_incr"])
                  /\ calls' = <<KickChatMember(tk.users[tk.i], r)>>
        /\ UNCHANGED <<store, alive, history>>

\* changeGroupActiveStatus(false) after a denied removal (both places)
processNewUsersDeactivate ==
    \E tk \in Running :
        /\ alive /\ tk.pc \in {"nu_deact", "nu_deact_from"}
        /\ settings' = changeGroupActiveStatus(settings, FALSE)
        /\ Step(tk, NextUser(tk))
        /\ calls' = <<HSet(FALSE)>>
        /\ UNCHANGED <<whitelist, warns, adminGroups, alive, history>>

\* the counter read before the increment and used as its result
IncrementReturnsOldValue ==
    \E tk \in Running :
        LET w == incrementMemberWarns(warns, tk.from)
            usrWarns == warns[tk.from]
        IN  /\ alive /\ tk.pc = "nu_incr"
            /\ warns[tk.from] < MaxWarn
            /\ warns' = w
            /\ incrs' = [incrs EXCEPT ![tk.from] = @ + 1]
            /\ reads' = [reads EXCEPT ![tk.from] = @ \cup {usrWarns}]
            /\ IF usrWarns >= tk.gs.limit
               THEN /\ Step(tk, [tk EXCEPT !.pc = "nu_kick_from",
                                            !.usrWarns = usrWarns])
                    /\ calls' = <<Incr(tk.from, usrWarns)>>
               ELSE /\ Step(tk, NextUser(tk))
                    /\ calls' = <<Incr(tk.from, usrWarns)>>
            /\ UNCHANGED <<settings, whitelist, adminGroups, alive>>

\* the limit test written with > in place of >=
IncrementStrictLimit ==
    \E tk \in Running :
        LET w == incrementMemberWarns(warns, tk.from)
            usrWarns == w[tk.from]
        IN  /\ alive /\ tk.pc = "nu_incr"
            /\ warns[tk.from] < MaxWarn
            /\ warns' = w
            /\ incrs' = [incrs EXCEPT ![tk.from] = @ + 1]
            /\ reads' = [reads EXCEPT ![tk.from] = @ \cup {usrWarns}]
            /\ IF usrWarns > tk.gs.limit
               THEN /\ Step(tk, [tk EXCEPT !.pc = "nu_kick_from",
                                            !.usrWarns = usrWarns])
                    /\ calls' = <<Incr(tk.from, usrWarns)>>
               ELSE /\ Step(tk, NextUser(tk))
                    /\ calls' = IF tk.gs.showWarn
                                THEN <<Incr(tk.from, usrWarns),
                                       Send(warnUser(usrWarns, tk.gs.limit))>>
                                ELSE <<Incr(tk.from, usrWarns)>>
            /\ UNCHANGED <<settings, whitelist, adminGroups, alive>>

\* incrementMemberWarns, then the limit test or the warning
processNewUsersIncrement ==
    \E tk \in Running :
        LET w == incrementMemberWarns(warns, tk.from)
            usrWarns == w[tk.from]
        IN  /\ alive /\ tk.pc = "nu_incr"
            /\ warns[tk.from] < MaxWarn
            /\ warns' = w
            /\ incrs' = [incrs EXCEPT ![tk.from] = @ + 1]
            /\ reads' = [reads EXCEPT ![tk.from] = @ \cup {usrWarns}]
            /\ IF usrWarns >= tk.gs.limit
               THEN /\ Step(tk, [tk EXCEPT !.pc = "nu_kick_from",
                                            !.usrWarns = usrWarns])
                    /\ calls' = <<Incr(tk.from, usrWarns)>>
               ELSE /\ Step(tk, NextUser(tk))
                    /\ calls' = IF tk.gs.showWarn
                                THEN <<Incr(tk.from, usrWarns),
                                       Send(warnUser(usrWarns, tk.gs.limit))>>
                                ELSE <<Incr(tk.from, usrWarns)>>
            /\ UNCHANGED <<settings, whitelist, adminGroups, alive>>

\* kickUser of the originating actor
processNewUsersKickFrom ==
    \E tk \in Running :
        /\ alive /\ tk.pc = "nu_kick_from"
        /\ \E r \in KickResponses :
              LET k == kickUser(r)
              IN  /\ Step(tk, IF k.err THEN NextUser(tk)
                              ELSE IF ~k.ok THEN [tk EXCEPT !.pc = "nu_deact_from"]
                              ELSE [tk EXCEPT !.pc = "nu_del"])
                  /\ calls' = <<KickChatMember(tk.from, r)>>
        /\ UNCHANGED <<store, alive, history>>

\* the Del given the key of the joined account in place of the sender's
DelWarnsOfJoined ==
    \E tk \in Running :
        /\ alive /\ tk.pc = "nu_del"
        /\ warns' = warns
        /\ Step(tk, NextUser(tk))
        /\ calls' = <<Del(tk.users[tk.i])>>
        /\ UNCHANGED <<settings, whitelist, adminGroups, alive, history>>

\* Del of the warn counter
processNewUsersDelWarns ==
    \E tk \in Running :
        /\ alive /\ tk.pc = "nu_del"
        /\ warns' = [warns EXCEPT ![tk.from] = 0]
        /\ incrs' = [incrs EXCEPT ![tk.from] = 0]
        /\ reads' = [reads EXCEPT ![tk.from] = {}]
        /\ Step(tk, NextUser(tk))
        /\ calls' = <<Del(tk.from)>>
        /\ UNCHANGED <<settings, whitelist, adminGroups, alive>>

----------------------------------------------------------------------------
(* processLeftUser *)

\* HGet of the creator field; redis.Nil (no such field) is an error too
processLeftUserHGet ==
    \E tk \in Running :
        /\ tk.pc = "lu_hget" /\ alive
        /\ IF settings.exists
           THEN /\ Step(tk, [tk EXCEPT !.pc = "lu_exec",
                                        !.creatorStr = settings.creator])
                /\ alive' = TRUE
           ELSE Fatal(tk)
        /\ calls' = <<HGet(settings.exists)>>
        /\ UNCHANGED <<store, history>>

\* the pipeline without the Del of the whitelist key
ExecKeepsWhitelist ==
    \E tk \in Running :
        LET admin == ParseInt(tk.creatorStr)
        IN  /\ alive /\ tk.pc = "lu_exec"
            /\ settings' = NoHash
            /\ adminGroups' = IF ~admin.err /\ admin.value \in DOMAIN adminGroups
                              THEN [adminGroups EXCEPT ![admin.value] = @ \ {Chat}]
                              ELSE adminGroups
            /\ Step(tk, [tk EXCEPT !.pc = "lu_srem"])
            /\ calls' = <<Exec("cleanup")>>
            /\ UNCHANGED <<whitelist, warns, alive, history>>

\* the pipeline: Del groupKey, Del whiteListKey, SRem adminKey
processLeftUserExec ==
    \E tk \in Running :
        LET admin == ParseInt(tk.creatorStr)
        IN  /\ alive /\ tk.pc = "lu_exec"
            /\ settings' = NoHash
            /\ whitelist' = {}
            /\ adminGroups' = IF ~admin.err /\ admin.value \in DOMAIN adminGroups
                              THEN [adminGroups EXCEPT ![admin.value] = @ \ {Chat}]
                              ELSE adminGroups
            /\ Step(tk, [tk EXCEPT !.pc = "lu_srem"])
            /\ calls' = <<Exec("cleanup")>>
            /\ UNCHANGED <<warns, alive, history>>

\* leftChatMember.IsBot: SRem from the whitelist
processLeftUserSRem ==
    \E tk \in Running :
        /\ alive /\ tk.pc = "lu_srem"
        /\ whitelist' = whitelist \ {tk.left}
        /\ Step(tk, Returned)
        /\ calls' = <<SRem(tk.left)>>
        /\ UNCHANGED <<settings, warns, adminGroups, alive, history>>

----------------------------------------------------------------------------
(* processBotMessage *)

processBotMessageIsActive ==
    \E tk \in Running :
        /\ alive /\ tk.pc = "bm_active"
        /\ Step(tk, IF isGroupActive(settings)
                    THEN [tk EXCEPT !.pc = "bm_member"]
                    ELSE Returned)
        /\ calls' = <<HGet(settings.exists)>>
        /\ UNCHANGED <<store, alive, history>>

processBotMessageIsMember ==
    \E tk \in Running :
        LET isApproved == tk.from \in whitelist
        IN  /\ alive /\ tk.pc = "bm_member"
            /\ Step(tk, IF isApproved THEN Returned
                        ELSE [tk EXCEPT !.pc = "bm_kick"])
            /\ calls' = <<SIsMember(tk.from, isApproved)>>
            /\ UNCHANGED <<store, alive, history>>

\* kickUser of the sender, then deleteMessage unless the removal was denied
processBotMessageKick ==
    \E tk \in Running :
        /\ alive /\ tk.pc = "bm_kick"
        /\ \E r \in KickResponses :
              LET k == kickUser(r)
              IN  IF ~k.err /\ ~k.ok
                  THEN /\ Step(tk, [tk EXCEPT !.pc = "bm_deact"])
                       /\ calls' = <<KickChatMember(tk.from, r)>>
                  ELSE /\ Step(tk, Returned)
                       /\ calls' = <<KickChatMember(tk.from, r), DeleteMessage>>
        /\ UNCHANGED <<store, alive, history>>

\* the deactivation with the status argument true
DeactivateWritesTrue ==
    \E tk \in Running :
        /\ alive /\ tk.pc = "bm_deact"
        /\ settings' = changeGroupActiveStatus(settings, TRUE)
        /\ Step(tk, Returned)
        /\ calls' = <<HSet(TRUE)>>
        /\ UNCHANGED <<whitelist, warns, adminGroups, alive, history>>

processBotMessageDeactivate ==
    \E tk \in Running :
        /\ alive /\ tk.pc = "bm_deact"
        /\ settings' = changeGroupActiveStatus(settings, FALSE)
        /\ Step(tk, Returned)
        /\ calls' = <<HSet(FALSE)>>
        /\ UNCHANGED <<whitelist, warns, adminGroups, alive, history>>

----------------------------------------------------------------------------
(* log.Fatal: a redis call of a goroutine fails and the process exits *)

StorePcs ==
    {"nu_find", "nu_deact", "nu_deact_from", "nu_incr", "nu_del",
     "lu_hget", "lu_exec", "lu_srem", "bm_active", "bm_member", "bm_deact"}

AtStoreCall(tk) ==
    \/ tk.pc \in StorePcs
    \/ tk.pc = "nu_loop" /\ (tk.from = tk.gs.creator \/ tk.gs.isActive)

StoreFailure ==
    \E tk \in Running :
        /\ alive /\ AtStoreCall(tk)
        /\ Fatal(tk)
        /\ calls' = <<>>
        /\ UNCHANGED <<store, history>>

----------------------------------------------------------------------------
\* Start launches one goroutine per update; a goroutine runs its handler one
\* redis call (or removal) at a time; any redis call can fail
Engine(in) ==
    \/ StartNewUsers(in)
    \/ StartLeftUser(in)
    \/ StartBotMessage(in)
    \/ HandleActivate
    \/ processNewUsersFind
    \/ initGroup(in)
    \/ processNewUsersWhitelist
    \/ processNewUsersInactive
    \/ processNewUsersIsMember
    \/ processNewUsersKick
    \/ processNewUsersDeactivate
    \/ processNewUsersIncrement
    \/ processNewUsersKickFrom
    \/ processNewUsersDelWarns
    \/ processLeftUserHGet
    \/ processLeftUserExec
    \/ processLeftUserSRem
    \/ processBotMessageIsActive
    \/ processBotMessageIsMember
    \/ processBotMessageKick
    \/ processBotMessageDeactivate
    \/ StoreFailure

Next == Engine(Inputs)

Spec == Init /\ [][Next]_vars

\* the same engine over a store in which the creator field can be corrupted
NextWide == Engine(WideInputs)

SpecWide == Init /\ [][NextWide]_vars

NextSettings == Engine(SettingsInputs) \/ HandleSettings

SpecSettings == Init /\ [][NextSettings]_vars

NextCorrupt == Engine(CorruptInputs) \/ CorruptCreator

SpecCorrupt == Init /\ [][NextCorrupt]_vars

----------------------------------------------------------------------------
(* Vocabulary of the properties *)

\* a goroutine with locals tk takes this step
Leaves(tk) == CopiesIn(tk, tasks') < CopiesIn(tk, tasks)

\* this step brings a goroutine to one of the places in pcs
Arrives(pcs) ==
    \E tk \in BagToSet(tasks') :
        tk.pc \in pcs /\ CopiesIn(tk, tasks') > CopiesIn(tk, tasks)

\* the calls of the last step, and of this step
Made(c) == \E j \in 1..Len(calls) : calls[j] = c
Makes(c) == \E j \in 1..Len(calls') : calls'[j] = c

KickCalls == { calls[j] : j \in { k \in 1..Len(calls) : calls[k].op = "KickChatMember" } }
KickCallsNow == { calls'[j] : j \in { k \in 1..Len(calls') : calls'[k].op = "KickChatMember" } }

\* kickUser returns not-ok without an error
Denied(r) == ~kickUser(r).ok /\ ~kickUser(r).err

\* the places a goroutine is at after a denied removal, and before a removal
DeniedPcs == {"nu_deact", "nu_deact_from", "bm_deact"}
KickPcs == {"nu_kick", "bm_kick"}

----------------------------------------------------------------------------
(* C1 *)

\* C1: in every reachable state the warn counter of every human of the chat
\* is at least 0 and at most the chat's warnLimit (an absent counter is 0).
C1_WarnsWithinLimit ==
    \A h \in Humans :
        /\ 0 <= warns[h]
        /\ settings.exists => warns[h] <= settings.limit

----------------------------------------------------------------------------
(* C2 *)

\* C2: when kickUser returns not-ok without error, in any of the three places,
\* the goroutine goes on to the deactivation, and its next step, unless redis
\* fails, is the HSet that leaves the persisted isActive false and writes
\* nothing else.
C2_DeniedRemovalDeactivates ==
    [][ /\ \A c \in KickCallsNow : Denied(c.response) => Arrives(DeniedPcs)
        /\ \A tk \in Running :
              (tk.pc \in DeniedPcs /\ Leaves(tk) /\ alive') =>
                  /\ calls' = <<HSet(FALSE)>>
                  /\ ~isGroupActive(settings')
                  /\ settings.exists => settings' = [settings EXCEPT !.isActive = FALSE]
                  /\ UNCHANGED <<whitelist, warns, adminGroups>>
      ]_vars

\* a denied removal has been answered by the deactivation of an active chat
C2_Witness ==
    /\ Made(HSet(FALSE))
    /\ settings.exists /\ ~settings.isActive
    /\ \E h \in Humans : warns[h] > 0

----------------------------------------------------------------------------
(* C3 *)

\* C3 as claimed: the creator's branch changes no warn counter and removes
\* nobody, the join event ends with its accounts in the whitelist, and no
\* removal is ever attempted of an account the creator has put in the
\* whitelist.
C3_CreatorAddedNeverModerated ==
    [][ /\ \A tk \in Running :
              (tk.pc = "nu_loop" /\ tk.from = tk.gs.creator /\ Leaves(tk) /\ alive') =>
                  /\ warns' = warns
                  /\ KickCallsNow = {}
                  /\ NextUser(tk).pc = "return" =>
                        \A j \in 1..Len(tk.users) :
                            tk.users[j] # Self => tk.users[j] \in whitelist'
        /\ \A c \in KickCallsNow : c.user \notin whitelist
      ]_vars

\* C3 as amended: for an account of a join event whose sender is the creator
\* of the settings the goroutine read or created, the step of the creator's
\* branch leaves the account in the whitelist, calls no removal and changes
\* no warn counter, whatever isActive is; and a whitelist read that finds an
\* account is never followed by its removal.
C3_CreatorAddIsWhitelisted ==
    [][ /\ \A tk \in Running :
              (tk.pc = "nu_loop" /\ tk.from = tk.gs.creator /\ Leaves(tk) /\ alive') =>
                  /\ tk.users[tk.i] \in whitelist'
                  /\ warns' = warns
                  /\ KickCallsNow = {}
                  /\ ~Arrives(KickPcs \cup {"nu_incr", "nu_kick_from"})
        /\ \A u \in Accounts : Makes(SIsMember(u, TRUE)) => ~Arrives(KickPcs)
      ]_vars

\* the creator has added an account to the whitelist of an inactive chat
C3_Witness ==
    /\ Made(SAdd(3, 1))
    /\ 3 \in whitelist
    /\ settings.exists /\ ~settings.isActive

----------------------------------------------------------------------------
(* C4 *)

\* C4: the cleanup of processLeftUser for the moderator's own departure leaves
\* the settings key and the whitelist key absent and the chat out of the
\* admin-group set of the creator it read from the settings; when that creator
\* string does not parse, the admin-group sets stay as they are and the two
\* keys are deleted all the same.  The rest of the handler, the SRem of the
\* departed account, writes neither the settings nor an admin-group set and
\* adds nothing to the whitelist.
C4_LeaveCleansUp ==
    [][ \A tk \in Running :
          /\ (tk.pc = "lu_exec" /\ Leaves(tk) /\ alive') =>
                /\ ~settings'.exists
                /\ whitelist' = {}
                /\ IF ParseInt(tk.creatorStr).err
                   THEN adminGroups' = adminGroups
                   ELSE /\ Chat \notin adminGroups'[ParseInt(tk.creatorStr).value]
                        /\ \A h \in Humans \ {ParseInt(tk.creatorStr).value} :
                              adminGroups'[h] = adminGroups[h]
          /\ (tk.pc = "lu_srem" /\ tk.left = Self /\ Leaves(tk) /\ alive') =>
                /\ settings' = settings
                /\ adminGroups' = adminGroups
                /\ whitelist' \subseteq whitelist
      ]_vars

\* the cleanup has run for a chat whose settings named creator 1
C4_Witness ==
    /\ Made(Exec("cleanup"))
    /\ \E tk \in Running : tk.pc = "lu_srem" /\ tk.left = Self /\ tk.creatorStr = "1"
    /\ ~settings.exists /\ whitelist = {} /\ adminGroups[1] = {}

\* the cleanup has run with a creator string that does not parse
C4_WitnessUnparsable ==
    /\ Made(Exec("cleanup"))
    /\ \E tk \in Running :
          tk.pc = "lu_srem" /\ tk.left = Self /\ ParseInt(tk.creatorStr).err
    /\ ~settings.exists /\ whitelist = {} /\ Chat \in adminGroups[1]

----------------------------------------------------------------------------
(* C5 *)

\* C5 as claimed: no removal is attempted of an account that is in the
\* whitelist at the time of the attempt.
C5_WhitelistedNeverKicked ==
    [][ \A c \in KickCallsNow : c.user \notin whitelist ]_vars

\* C5 as amended: a goroutine whose own whitelist read finds the account
\* attempts no removal of it: it leaves the read without going on to kickUser
\* and without any other call.
C5_FoundInWhitelistNotKicked ==
    [][ \A tk \in Running :
          LET target == IF tk.pc = "bm_member" THEN tk.from ELSE tk.users[tk.i]
              atRead == \/ tk.pc = "bm_member"
                        \/ tk.pc = "nu_loop" /\ tk.from # tk.gs.creator /\ tk.gs.isActive
          IN  (atRead /\ target \in whitelist /\ Leaves(tk) /\ alive') =>
                  /\ calls' = <<SIsMember(target, TRUE)>>
                  /\ ~Arrives(KickPcs)
                  /\ UNCHANGED store
      ]_vars

\* a whitelist read of an active chat has found the account
C5_Witness ==
    /\ \E u \in Accounts : Made(SIsMember(u, TRUE)) /\ u \in whitelist
    /\ isGroupActive(settings)

----------------------------------------------------------------------------
(* C6 *)

\* C6: the creator's branch leaves the whitelist as it is and sends no notice
\* when the account is in it already, and adds the account and sends the
\* notice when it is not; no other step sends that notice.
C6_WhitelistAddIdempotent ==
    [][ /\ \A tk \in Running :
              (tk.pc = "nu_loop" /\ tk.from = tk.gs.creator /\ Leaves(tk) /\ alive') =>
                  LET user == tk.users[tk.i]
                  IN  IF user \in whitelist
                      THEN /\ whitelist' = whitelist
                           /\ calls' = <<SAdd(user, 0)>>
                      ELSE /\ whitelist' = whitelist \cup {user}
                           /\ calls' = <<SAdd(user, 1), Send(botAddedToWhitelist(user))>>
        /\ \A u \in Accounts :
              Makes(Send(botAddedToWhitelist(u))) <=>
                  (u \notin whitelist /\ u \in whitelist')
      ]_vars

\* the creator has added again an account that was in the whitelist
C6_Witness ==
    /\ calls = <<SAdd(3, 0)>>
    /\ 3 \in whitelist

----------------------------------------------------------------------------
(* C7 *)

\* C7: the batches of initGroup and of the cleanup are all-or-nothing and no
\* state shows a chat with a whitelist and no settings, or settings whose
\* creator does not list the chat in its admin-group set.
C7_BatchesAtomic ==
    /\ whitelist # {} => settings.exists
    /\ (settings.exists /\ ~ParseInt(settings.creator).err) =>
          Chat \in adminGroups[ParseInt(settings.creator).value]

----------------------------------------------------------------------------
(* C8 *)

----------------------------------------------------------------------------
(* C9 *)

\* C9: a step in which a redis call of a goroutine fails leaves the process
\* running and every other goroutine in place.
C9_StoreFailureIsolated ==
    [][ (\E tk \in BagToSet(tasks') : tk.pc = "fatal") =>
            /\ alive'
            /\ BagCardinality(tasks') >= BagCardinality(tasks)
      ]_vars

----------------------------------------------------------------------------
(* C10 *)

\* C10: an initGroup that finds a creator and whose batch succeeds leaves the
\* settings {isActive false, showWarn true, warnLimit 3, the creator found,
\* title and description of the update} and the chat in that creator's
\* admin-group set, whatever the settings were before.
C10_InitGroupWritesDefaults ==
    [][ \A tk \in Running, r \in AdminResponses(Humans) :
          ( /\ tk.pc = "nu_init" /\ Leaves(tk) /\ alive'
            /\ Makes(GetChatAdministrators(r))
            /\ ~r.err /\ r.creator # NoCreator ) =>
              /\ settings' = [exists |-> TRUE, isActive |-> FALSE,
                              showWarn |-> TRUE, limit |-> 3,
                              creator |-> Itoa(r.creator), title |-> tk.title,
                              description |-> tk.description]
              /\ Chat \in adminGroups'[r.creator]
      ]_vars

\* initGroup has run over a chat that had settings: the whitelist is theirs,
\* and another goroutine still holds them as it read them, with isActive true
C10_Witness ==
    /\ Made(Exec("init"))
    /\ settings = [exists |-> TRUE, isActive |-> FALSE, showWarn |-> TRUE,
                   limit |-> 3, creator |-> "1", title |-> "title",
                   description |-> "about"]
    /\ Chat \in adminGroups[1]
    /\ whitelist # {}
    /\ \E other \in Running : other.gs.exists /\ other.gs.isActive

----------------------------------------------------------------------------
(* C11 *)

\* C11: no step of the engine (the launch of a goroutine or a step of one)
\* takes the persisted isActive from false to true; only the creator's
\* command does.
C11_EngineNeverActivates ==
    [][ tasks' # tasks => (isGroupActive(settings') => isGroupActive(settings)) ]_vars

\* the engine has deactivated a chat that the command had activated (a
\* processBotMessage goroutine had read it active)
C11_Witness ==
    /\ Made(HSet(FALSE))
    /\ settings.exists /\ ~settings.isActive
    /\ \E tk \in Running : tk.pc = "bm_member"

----------------------------------------------------------------------------
(* C12 *)

\* C12: the cleanup of processLeftUser for the moderator's own departure leaves
\* no key of the chat: the settings, the whitelist and every warn counter of
\* the chat are absent.
C12_LeaveDeletesAllKeys ==
    [][ \A tk \in Running :
          (tk.pc = "lu_exec" /\ Leaves(tk) /\ alive') =>
              /\ ~settings'.exists
              /\ whitelist' = {}
              /\ \A h \in Humans : warns'[h] = 0
      ]_vars

----------------------------------------------------------------------------
(* C13 *)

\* C13: at every removal attempt of processNewUsers and of processBotMessage
\* the persisted isActive of the chat is true.
C13_NoRemovalWhileInactive ==
    [][ KickCallsNow # {} => isGroupActive(settings) ]_vars

\* the only goroutine, handling a join of bots 3 and 4, is about to remove
\* bot 4 by the settings it read at its start, and the chat is inactive
C13_StaleSnapshot ==
    /\ BagCardinality(tasks) = 1
    /\ \E tk \in Running :
          /\ tk.users = <<3, 4>> /\ tk.i = 2 /\ tk.pc = "nu_kick"
          /\ tk.gs.isActive
    /\ Made(SIsMember(4, FALSE))
    /\ settings.exists /\ ~settings.isActive

----------------------------------------------------------------------------
(* C14 *)

\* C14: processBotMessage attempts the deletion of the message only in a step
\* in which the removal of the sender has succeeded; after a denied removal
\* or one that failed with an error it attempts none.
C14_DeleteOnlyAfterRemoval ==
    [][ Makes(DeleteMessage) =>
            \E c \in KickCallsNow :
                kickUser(c.response).ok /\ ~kickUser(c.response).err
      ]_vars

----------------------------------------------------------------------------
(* C15 *)

\* C15: a warn counter grows only in the increment step of a goroutine of
\* processNewUsers, by one, for the sender of its update, and no other counter
\* changes there; a goroutine comes to that step only from a removal of a
\* joined account that succeeded, and leaves it with the one increment made.
\* The creator's branch, the skip of an inactive chat, the whitelist read and
\* a denied or failed removal change no warn counter.
C15_IncrementOnlyAfterRemoval ==
    [][ /\ (\E h \in Humans : warns'[h] > warns[h]) =>
              \E tk \in Running :
                  /\ tk.pc = "nu_incr" /\ Leaves(tk)
                  /\ warns' = [warns EXCEPT ![tk.from] = @ + 1]
        /\ Arrives({"nu_incr"}) <=>
              \E tk \in Running, c \in KickCallsNow :
                  /\ tk.pc = "nu_kick" /\ Leaves(tk)
                  /\ c.user = tk.users[tk.i]
                  /\ kickUser(c.response).ok /\ ~kickUser(c.response).err
        /\ \A tk \in Running :
              (tk.pc \in {"nu_loop", "nu_kick", "nu_deact"} /\ Leaves(tk)) =>
                  warns' = warns
        /\ \A tk \in Running :
              (tk.pc = "nu_incr" /\ Leaves(tk) /\ alive') =>
                  /\ warns' = [warns EXCEPT ![tk.from] = @ + 1]
                  /\ ~Arrives({"nu_incr"})
      ]_vars

\* the first removal of a bot added by human 2 has been counted, once
C15_Witness ==
    /\ Made(Incr(2, 1))
    /\ warns = [h \in Humans |-> IF h = 2 THEN 1 ELSE 0]
    /\ incrs[2] = 1

----------------------------------------------------------------------------
(* C16 *)

\* C16: with v the value the increment returns and limit, showWarn those of
\* the settings the goroutine holds: the goroutine goes on to the removal of
\* the sender exactly when v >= limit, and that removal is attempted nowhere
\* else; the warning is sent exactly when v < limit and showWarn, in the same
\* step, carrying v and limit, and no other step sends a warning.
C16_LimitTestAndWarning ==
    [][ LET warnings == { calls'[j].msg :
                            j \in { k \in 1..Len(calls') :
                                      /\ calls'[k].op = "Send"
                                      /\ calls'[k].msg.kind = "warn" } }
        IN  /\ \A tk \in Running :
                  (tk.pc = "nu_incr" /\ Leaves(tk) /\ alive') =>
                      LET v == warns'[tk.from]
                      IN  /\ v = warns[tk.from] + 1
                          /\ calls'[1] = Incr(tk.from, v)
                          /\ Arrives({"nu_kick_from"}) <=> v >= tk.gs.limit
                          /\ KickCallsNow = {}
                          /\ warnings = IF v < tk.gs.limit /\ tk.gs.showWarn
                                        THEN {warnUser(v, tk.gs.limit)}
                                        ELSE {}
            /\ \A tk \in Running :
                  (tk.pc = "nu_kick_from" /\ Leaves(tk) /\ alive') =>
                      /\ tk.usrWarns >= tk.gs.limit
                      /\ \E r \in KickResponses :
                            calls' = <<KickChatMember(tk.from, r)>>
            /\ (\E c \in KickCallsNow : c.user \in Humans) =>
                  \E tk \in Running : tk.pc = "nu_kick_from" /\ Leaves(tk)
            /\ Arrives({"nu_kick_from"}) =>
                  \E tk \in Running : tk.pc = "nu_incr" /\ Leaves(tk)
            /\ warnings # {} =>
                  \E tk \in Running : tk.pc = "nu_incr" /\ Leaves(tk)
      ]_vars

\* Scenario A: the first incident of human 2 with limit 3 has been answered
\* by the warning "1 of 3" and no removal of the human
C16_Witness ==
    /\ calls = <<Incr(2, 1), Send(warnUser(1, 3))>>
    /\ warns[2] = 1
    /\ \A tk \in Running : tk.pc # "nu_kick_from"

\* an increment below the limit has been made with showWarn false: no warning
C16_WitnessSilent ==
    /\ calls = <<Incr(2, 1)>>
    /\ settings.exists /\ settings.limit = 3 /\ ~settings.showWarn
    /\ \A tk \in Running : tk.pc # "nu_kick_from"

----------------------------------------------------------------------------
(* C17 *)

\* C17: a removal of the sender that succeeds takes the goroutine to the Del
\* of the sender's warn counter, which is its last step for the account and
\* leaves that counter absent and the others as they were; a removal that is
\* denied takes it to the deactivation, and neither step deletes or changes
\* a counter; no other step of the engine deletes a counter.
C17_CounterDeletedAfterRemoval ==
    [][ /\ \A tk \in Running :
              (tk.pc = "nu_kick_from" /\ Leaves(tk) /\ alive') =>
                  /\ warns' = warns
                  /\ \A c \in KickCallsNow :
                        /\ (kickUser(c.response).ok /\ ~kickUser(c.response).err)
                              => Arrives({"nu_del"})
                        /\ Denied(c.response)
                              => Arrives({"nu_deact_from"}) /\ ~Arrives({"nu_del"})
        /\ \A tk \in Running :
              (tk.pc = "nu_del" /\ Leaves(tk) /\ alive') =>
                  /\ calls' = <<Del(tk.from)>>
                  /\ warns' = [warns EXCEPT ![tk.from] = 0]
                  /\ ~Arrives({"nu_kick_from", "nu_incr", "nu_del"})
        /\ \A tk \in Running :
              (tk.pc = "nu_deact_from" /\ Leaves(tk) /\ alive') =>
                  /\ warns' = warns
                  /\ \A h \in Humans : ~Makes(Del(h))
        /\ (\E h \in Humans : Makes(Del(h)) \/ warns'[h] < warns[h]) =>
              \E tk \in Running : tk.pc = "nu_del" /\ Leaves(tk)
      ]_vars

\* Scenario B: human 2 has been removed at the limit and the counter deleted
C17_Witness ==
    /\ calls = <<Del(2)>>
    /\ warns[2] = 0 /\ incrs[2] = 0
    /\ settings.exists /\ settings.limit = 3

\* the removal of human 2 at the limit was denied: the counter stays
C17_WitnessDenied ==
    /\ Made(HSet(FALSE))
    /\ warns[2] >= 3
    /\ settings.exists /\ ~settings.isActive

----------------------------------------------------------------------------
(* C18 *)

\* C18: an initGroup whose GetChatAdministrators fails, or finds no creator,
\* writes nothing to redis, and processNewUsers returns there: its goroutine
\* ends with no step for another account of the update.  With no creator the
\* notice is sent and the chat left; after a failed fetch nothing is sent.
C18_FailedInitWritesNothing ==
    [][ \A tk \in Running, r \in AdminResponses(Humans) :
          ( /\ tk.pc = "nu_init" /\ Leaves(tk)
            /\ Makes(GetChatAdministrators(r))
            /\ r.err \/ r.creator = NoCreator ) =>
              /\ UNCHANGED store
              /\ alive'
              /\ tasks' = tasks (-) SetToBag({tk})
              /\ calls' = IF r.err
                          THEN <<GetChatAdministrators(r)>>
                          ELSE <<GetChatAdministrators(r),
                                 Send(superGroupIntroduction),
                                 Send(botCannotOperateWithoutCreator),
                                 LeaveChat>>
      ]_vars

\* the moderator has left a chat that has no creator, and the chat has no
\* settings
C18_Witness ==
    /\ Made(LeaveChat)
    /\ Made(Send(botCannotOperateWithoutCreator))
    /\ ~settings.exists
    /\ adminGroups = [h \in Humans |-> {}]

----------------------------------------------------------------------------
(* C19 *)

\* C19: the step in which a goroutine sets isActive to false after a denied
\* removal sends a notice to the chat before the write (the goroutine makes
\* no redis call between the removal and the write, so a notice sent in
\* between belongs to this step).
C19_NoticeBeforeDeactivation ==
    [][ \A tk \in Running :
          (tk.pc \in DeniedPcs /\ Leaves(tk) /\ alive') =>
              \E j, k \in 1..Len(calls') :
                  /\ j < k
                  /\ calls'[j].op = "Send"
                  /\ calls'[k] = HSet(FALSE)
      ]_vars

----------------------------------------------------------------------------
(* C20 *)

\* C20: in every reachable state the chat is in the admin-group set of an
\* account exactly when the chat's settings exist and record that account as
\* the creator.
C20_AdminIndexConsistent ==
    \A c \in Humans :
        Chat \in adminGroups[c] <=> (settings.exists /\ settings.creator = Itoa(c))

\* the chat has been initialized with creator 1 and then with creator 2,
\* and no goroutine is running
C20_Reinitialized ==
    /\ Made(Exec("init"))
    /\ tasks = EmptyBag
    /\ settings.exists /\ settings.creator = "2"
    /\ Chat \in adminGroups[1] /\ Chat \in adminGroups[2]

TypeOK ==
    /\ settings.exists \in BOOLEAN
    /\ whitelist \subseteq Bots
    /\ \A h \in Humans : warns[h] \in 0..MaxWarn
    /\ alive \in BOOLEAN
    /\ BagCardinality(tasks) <= MaxTasks

====
